---- MODULE Spec2Model ----
(***************************************************************************)
(* Backup and restore orchestrator of the research repository API          *)
(* (src/routes/backup.py): create_backup and restore_backup as request     *)
(* handlers that the web server may run concurrently, over the state they  *)
(* share: the PostgreSQL data directory (which holds the Backup table),    *)
(* the database service, the backups/ artifact tree, the content tree      *)
(* research_repository/ and the timestamped side copies.                   *)
(***************************************************************************)
EXTENDS Integers, Sequences, FiniteSets, TLC

\* ------------------------------------------------------------------------
\* Bounds of the model
\* ------------------------------------------------------------------------
MaxNow == 3
TicksPerSecond == 2
MaxRequests == 4
MaxTimeline == 2
MaxWrites == 1

\* ------------------------------------------------------------------------
\* Names
\* ------------------------------------------------------------------------
Procs == {1, 2}
FULL == "FULL"
INCREMENTAL == "INCR"
BackupType == {FULL, INCREMENTAL}
repository_dir == "research_repository"
FileNames == {"a"}

NoId == <<"NONE", 0>>
LiveId == <<"LIVE", 0>>
PartialId == <<"PARTIAL", 0>>
NoName == <<"NONE", 0>>
NoSession == -1

\* strftime('BK_<type>_%Y%m%d_%H%M%S'): the type and the time truncated to
\* the second.
generate_backup_id(backup_type, t) == <<backup_type, t \div TicksPerSecond>>

\* strftime('%Y%m%d_%H%M%S') appended to the directory name.
SideName(dir, t) == <<dir, t \div TicksPerSecond>>

\* ------------------------------------------------------------------------
\* Values
\* ------------------------------------------------------------------------
\* The cluster as initdb leaves it: WAL position above 0/0, timeline 1, an
\* empty Backup table.
InitData ==
  [base |-> LiveId, wal |-> <<>>, tables |-> {}, lsn |-> 1, timeline |-> 1,
   stats_reset |-> 0, signal |-> FALSE]

\* The data directory right after rmtree + makedirs.
EmptyData ==
  [base |-> NoId, wal |-> <<>>, tables |-> {}, lsn |-> 0, timeline |-> 0,
   stats_reset |-> 0, signal |-> FALSE]

EmptyDir == [db |-> <<>>, wal |-> <<>>, files |-> <<>>]

NoRec ==
  [backup_id |-> NoId, backup_type |-> "NONE", backup_date |-> 0,
   timeline_id |-> 0, parent_backup_id |-> NoId, wal_lsn |-> <<>>]

NoPre ==
  [pgdata |-> EmptyData, tree |-> <<>>, svc |-> "none", tables |-> {},
   disk |-> <<>>]

Idle ==
  [pc |-> "idle", op |-> "none", result |-> "none", backup_type |-> "NONE",
   current_timeline |-> 0, parent_backup_id |-> NoId, backup_id |-> NoId,
   target |-> NoId, target_backup |-> NoRec, chain |-> <<>>,
   original_data_backup |-> NoName, restore_successful |-> FALSE,
   didStop |-> FALSE, didWipe |-> FALSE, rolledBack |-> FALSE,
   session |-> NoSession, attempt |-> 0, audit_attempt |-> 0, backups |-> <<>>,
   pre |-> NoPre]


VARIABLES
  now,      \* wall clock, in ticks
  svc,      \* the database service: "running" or "stopped"
  pgdata,   \* the live data directory
  disk,     \* backups/<backup_id>/ : artifact directories
  tree,     \* files of the working directory under research_repository/
  side,     \* <pgdata>_backup_<timestamp> side copies
  loc,      \* per request handler: its position, locals and response
  nreq,     \* requests started so far
  nwrites,  \* content-tree and database modifications so far
  boots     \* times the database service was stopped

vars == <<now, svc, pgdata, disk, tree, side, loc, nreq, nwrites, boots>>

\* The Backup table is stored in the data directory and is readable only
\* through the running service.
Catalog == pgdata.tables

\* Backup.query.order_by(Backup.backup_date.desc()).first()
First(S) == CHOOSE r \in S : \A q \in S : q.backup_date <= r.backup_date

\* Backup.query.filter_by(backup_id=...).first()
Lookup(S, id) ==
  IF \E r \in S : r.backup_id = id
  THEN CHOOSE r \in S : r.backup_id = id
  ELSE NoRec

\* x.wal_lsn or '0/0'
LsnOr(w, d) == IF w = <<>> THEN d ELSE w[1]

\* pg_basebackup / the WAL copy capture the database as it is then.
Image(d) ==
  [tables |-> d.tables, lsn |-> d.lsn, timeline |-> d.timeline,
   stats_reset |-> d.stats_reset]

\* Name of the newest WAL segment of the cluster.
WalFile(d) == <<d.timeline, d.lsn>>

RepoFiles(t) == {p \in DOMAIN t : Len(p) >= 2 /\ p[1] = repository_dir}

\* get_changed_files: the files under the root modified after the cutoff,
\* as the paths os.walk joins (root included).
get_changed_files(t, last_backup_date) ==
  {p \in RepoFiles(t) : t[p].mtime > last_backup_date}

\* os.path.dirname and os.path.relpath on paths as sequences of components.
Dirname(path) == SubSeq(path, 1, Len(path) - 1)
RelPath(path, start) == SubSeq(path, Len(start) + 1, Len(path))

\* arcname = os.path.relpath(filepath, start=os.path.dirname(repository_dir))
ArcName(filepath) == RelPath(filepath, Dirname(<<repository_dir>>))

\* shutil.rmtree(backup_dir, ignore_errors=True)
RmDir(d, id) == [i \in DOMAIN d \ {id} |-> d[i]]

\* os.makedirs(..., exist_ok=True)
MkDir(d, id) == IF id \in DOMAIN d THEN d ELSE d @@ (id :> EmptyDir)

\* What is left of a call once it has returned: the request, the response
\* and how far the call went; its locals are gone.
Response(call, res) ==
  [Idle EXCEPT !.pc = "done", !.result = res, !.op = call.op,
               !.backup_type = call.backup_type, !.backup_id = call.backup_id,
               !.target = call.target, !.didStop = call.didStop,
               !.didWipe = call.didWipe, !.rolledBack = call.rolledBack,
               !.restore_successful = call.restore_successful,
               !.attempt = call.attempt, !.audit_attempt = call.audit_attempt,
               !.backups = call.backups]

\* The handler returns its response.
Ret(p, call, res) == loc' = [loc EXCEPT ![p] = Response(call, res)]

\* What a call finds when it starts (kept to state what it must preserve).
PreCreate == [NoPre EXCEPT !.tables = pgdata.tables, !.disk = disk]
PreRestore == [NoPre EXCEPT !.pgdata = pgdata, !.tree = tree, !.svc = svc]

\* A request is served by the first free worker; the locals and the response
\* of its previous call are gone.
Free(p) ==
  /\ loc[p].pc \in {"idle", "done"}
  /\ \A q \in Procs : q < p => loc[q].pc \notin {"idle", "done"}

Init ==
  /\ now = 0
  /\ svc = "running"
  /\ pgdata = InitData
  /\ disk = <<>>
  /\ tree = (<<repository_dir, "a">> :> [content |-> 0, mtime |-> 0])
  /\ side = <<>>
  /\ loc = [p \in Procs |-> Idle]
  /\ nreq = 0
  /\ nwrites = 0
  /\ boots = 0

\* ------------------------------------------------------------------------
\* create_backup
\* ------------------------------------------------------------------------
\* The record the handler inserts.
NewRecord(c, d, t) ==
  [backup_id |-> c.backup_id, backup_type |-> c.backup_type,
   backup_date |-> t, timeline_id |-> d.timeline,
   parent_backup_id |-> c.parent_backup_id, wal_lsn |-> <<>>]

\* The SELECT EXISTS over pg_stat_database.
has_changes(d, last_backup_date) == d.stats_reset > last_backup_date

\* A table without a key on backup_id.
CanInsert_NoKey(S, r) == TRUE

\* db.session.add + db.session.commit: the insert is refused when a row with
\* the same backup_id exists.
CanInsert(S, r) == \A q \in S : q.backup_id # r.backup_id

\* The except handler of create_backup: remove backup_dir, answer 500.
CreateFail(p, call, res) ==
  /\ disk' = RmDir(disk, call.backup_id)
  /\ Ret(p, call, res)

\* A session whose connection outlives every restart of the service.
SessionLost_Never(c) == FALSE

\* The session of the call holds the connection its first query opened; the
\* connection does not outlive a stop of the service.
SessionLost(c) == c.session # NoSession /\ c.session # boots

\* A lookup that forgets the timeline.
InTimeline_Any(S, timeline) == S

\* Backup.query.filter_by(timeline_id=current_timeline)
InTimeline(S, timeline) == {r \in S : r.timeline_id = timeline}

\* A request arrives. FULL: the id and the directories. INCREMENTAL: the
\* engine's timeline is read first.
CreateBegin(p, bt) ==
  /\ Free(p)
  /\ nreq < MaxRequests
  /\ nreq' = nreq + 1
  /\ LET c0 == [Idle EXCEPT !.op = "create", !.backup_type = bt,
                            !.pre = PreCreate]
         id == generate_backup_id(bt, now)
     IN  IF bt = INCREMENTAL /\ svc # "running"
         THEN /\ Ret(p, c0, "CreateFailed")
              /\ UNCHANGED disk
         ELSE IF bt = INCREMENTAL
         THEN /\ loc' = [loc EXCEPT ![p] =
                   [c0 EXCEPT !.pc = "c_lookup",
                              !.current_timeline = pgdata.timeline]]
              /\ UNCHANGED disk
         ELSE /\ loc' = [loc EXCEPT ![p] =
                   [c0 EXCEPT !.pc = "c_artifacts", !.backup_id = id]]
              /\ disk' = MkDir(disk, id)
  /\ UNCHANGED <<now, svc, pgdata, tree, side, nwrites, boots>>

\* INCREMENTAL: the parent lookup in the timeline that was read, then the id
\* and the directories.
CreateLookup(p) ==
  /\ loc[p].pc = "c_lookup"
  /\ LET c == loc[p]
         inTl == InTimeline(Catalog, c.current_timeline)
         id == generate_backup_id(c.backup_type, now)
     IN  IF svc # "running"
         THEN /\ Ret(p, c, "CreateFailed")
              /\ UNCHANGED disk
         ELSE IF inTl = {}
         THEN /\ Ret(p, c, "NoBaseBackupError")
              /\ UNCHANGED disk
         ELSE /\ loc' = [loc EXCEPT ![p] =
                   [c EXCEPT !.pc = "c_artifacts",
                             !.parent_backup_id = First(inTl).backup_id,
                             !.session = boots,
                             !.backup_id = id]]
              /\ disk' = MkDir(disk, id)
  /\ UNCHANGED <<now, svc, pgdata, tree, side, nreq, nwrites, boots>>

\* The base image, WAL and content archive of a FULL backup.
FullArtifacts(d, t) ==
  [db |-> <<Image(d)>>, wal |-> <<>>,
   files |-> <<[m \in RepoFiles(t) |-> t[m]]>>]

\* The WAL archive, backup.info and changed-file archive of an INCREMENTAL.
IncrArtifacts(c, d, t, S, clock) ==
  LET last_backup == First(S)
      last_lsn == LsnOr(last_backup.wal_lsn, 0)
      earlier == {r \in S : r.backup_date < clock}
      cutoff == IF earlier = {} THEN NoRec ELSE First(earlier)
      changed == IF earlier = {} THEN {}
                 ELSE get_changed_files(t, cutoff.backup_date)
  IN  [db |-> <<>>,
       wal |-> <<[wal_file |-> WalFile(d), img |-> Image(d),
                  parent_backup_id |-> c.parent_backup_id,
                  start_wal_location |-> last_lsn,
                  end_wal_location |-> d.lsn,
                  baseline |-> last_backup.backup_id,
                  cutoff |-> cutoff.backup_id]>>,
       files |-> IF changed = {} THEN <<>>
                 ELSE <<[m \in {ArcName(f) : f \in changed} |->
                           t[CHOOSE f \in changed : ArcName(f) = m]]>>]

\* "No previous backup found. Please create a full backup first"
IncrNoPrevious(S) == S = {}

\* "No changes detected since last backup."
IncrNoChanges(d, S) ==
  /\ S # {}
  /\ ~has_changes(d, First(S).backup_date)
  /\ d.lsn = LsnOr(First(S).wal_lsn, 0)

\* The INCREMENTAL branch raises before it writes anything.
IncrRaises(d, S) == IncrNoPrevious(S) \/ IncrNoChanges(d, S)

CreateArtifacts(p) ==
  /\ loc[p].pc = "c_artifacts"
  /\ LET c == loc[p]
         id == c.backup_id
     IN  \E toolOk \in BOOLEAN :
           IF \/ ~toolOk
              \/ svc # "running"
              \/ id \notin DOMAIN disk
              \/ (c.backup_type = INCREMENTAL /\ SessionLost(c))
              \/ (c.backup_type = INCREMENTAL /\ IncrNoPrevious(Catalog))
           THEN CreateFail(p, c, "CreateFailed")
           ELSE IF c.backup_type = INCREMENTAL /\ IncrNoChanges(pgdata, Catalog)
           THEN CreateFail(p, c, "NoChangesError")
           ELSE /\ disk' = [disk EXCEPT ![id] =
                     IF c.backup_type = FULL
                     THEN FullArtifacts(pgdata, tree)
                     ELSE IncrArtifacts(c, pgdata, tree, Catalog, now)]
                /\ loc' = [loc EXCEPT ![p].pc = "c_record"]
  /\ UNCHANGED <<now, svc, pgdata, tree, side, nreq, nwrites, boots>>

\* The catalog row, then the audit trail; the except handler on any failure.
CreateRecord(p) ==
  /\ loc[p].pc = "c_record"
  /\ now < MaxNow
  /\ LET c == loc[p]
         r == NewRecord(c, pgdata, now)
     IN  IF svc # "running" \/ SessionLost(c)
         THEN /\ CreateFail(p, c, "CreateFailed")
              /\ UNCHANGED <<pgdata, now>>
         ELSE IF ~CanInsert(Catalog, r)
         THEN /\ CreateFail(p, c, "DuplicateIdError")
              /\ UNCHANGED <<pgdata, now>>
         ELSE /\ pgdata' = [pgdata EXCEPT !.tables = @ \cup {r}]
              /\ now' = now + 1
              /\ \E auditOk \in BOOLEAN :
                   IF auditOk
                   THEN /\ Ret(p, c, "Created")
                        /\ UNCHANGED disk
                   ELSE CreateFail(p, c, "CreateFailed")
  /\ UNCHANGED <<svc, tree, side, nreq, nwrites, boots>>

\* ------------------------------------------------------------------------
\* restore_backup
\* ------------------------------------------------------------------------
\* What stands for a chain that is never completed.
Endless == <<NoRec>>

\* A walk that leaves the record it starts from out of the list.
Walk_ParentOnly(S, current_backup, backups_to_restore) ==
  IF current_backup = NoRec
  THEN backups_to_restore
  ELSE IF current_backup.parent_backup_id # NoId
       THEN <<Lookup(S, current_backup.parent_backup_id)>>
       ELSE <<current_backup>>

\* The while loop that follows parent_backup_id, inserting at the front. It
\* ends at a record without parent or at a parent that is not found; on a
\* record it has already inserted it goes round for ever.
RECURSIVE Walk(_, _, _)
Walk(S, current_backup, backups_to_restore) ==
  IF current_backup = NoRec
  THEN backups_to_restore
  ELSE IF \E i \in 1..Len(backups_to_restore) :
            backups_to_restore[i] = current_backup
  THEN Endless
  ELSE IF current_backup.parent_backup_id # NoId
       THEN Walk(S, Lookup(S, current_backup.parent_backup_id),
                 <<current_backup>> \o backups_to_restore)
       ELSE <<current_backup>> \o backups_to_restore

\* "Verify we have a valid chain starting with a full backup"
ChainValid(backups_to_restore) ==
  /\ backups_to_restore # <<>>
  /\ backups_to_restore[1].backup_type = FULL

HasBase(d, id) == id \in DOMAIN d /\ d[id].db # <<>>
HasWal(d, id) == id \in DOMAIN d /\ d[id].wal # <<>>
HasFiles(d, id) == id \in DOMAIN d /\ d[id].files # <<>>

\* tar.extractall of base.tar.gz into the data directory and of
\* pg_wal.tar.gz into pg_wal.
ExtractBase(d, id) ==
  LET img == d[id].db[1]
  IN  [base |-> id, wal |-> << <<"pg_wal", id>> >>, tables |-> img.tables,
       lsn |-> img.lsn, timeline |-> img.timeline,
       stats_reset |-> img.stats_reset, signal |-> FALSE]

\* wal.xz of one INCREMENTAL written under the wal_file name of backup.info;
\* a missing wal.xz is skipped.
ExtractWal(data, d, b) ==
  IF b.backup_type = INCREMENTAL /\ HasWal(d, b.backup_id)
  THEN LET w == d[b.backup_id].wal[1]
       IN  [data EXCEPT !.wal = Append(@, <<w.wal_file, b.backup_id>>),
                        !.tables = w.img.tables,
                        !.lsn = w.img.lsn,
                        !.stats_reset = w.img.stats_reset]
  ELSE data

RECURSIVE ExtractWals(_, _, _, _)
ExtractWals(data, d, backups_to_restore, i) ==
  IF i > Len(backups_to_restore)
  THEN data
  ELSE ExtractWals(ExtractWal(data, d, backups_to_restore[i]), d,
                   backups_to_restore, i + 1)

\* The service can come up only on a complete cluster.
Startable(data) == data.base \notin {NoId, PartialId}

CopyOf(data, ok) ==
  IF ok THEN data ELSE [EmptyData EXCEPT !.base = PartialId]

\* The ids a client can name: those generate_backup_id can have produced.
AllIds == BackupType \X (0..(MaxNow \div TicksPerSecond))
IdsKnown == DOMAIN disk \cup {r.backup_id : r \in Catalog}

\* A request arrives; the target lookup and, for an INCREMENTAL target, the
\* chain walk and its validation.
RestoreBegin(p, id) ==
  /\ Free(p)
  /\ nreq < MaxRequests
  /\ nreq' = nreq + 1
  /\ id \in IdsKnown
  /\ LET c0 == [Idle EXCEPT !.op = "restore", !.target = id,
                            !.pre = PreRestore]
         target_backup == Lookup(Catalog, id)
         c1 == [c0 EXCEPT !.target_backup = target_backup]
         chain == Walk(Catalog, target_backup, <<>>)
     IN  IF svc # "running"
         THEN Ret(p, c0, "RestoreFailed")
         ELSE IF target_backup = NoRec
         THEN Ret(p, c0, "NotFound")
         ELSE IF target_backup.backup_type = FULL
         THEN /\ loc' = [loc EXCEPT ![p] = [c1 EXCEPT !.pc = "rf_stop"]]
         ELSE IF chain = Endless
         THEN /\ loc' = [loc EXCEPT ![p] = [c1 EXCEPT !.pc = "ri_walk"]]
         ELSE IF ~ChainValid(chain)
         THEN Ret(p, [c1 EXCEPT !.chain = chain], "ChainIntegrityError")
         ELSE /\ loc' = [loc EXCEPT ![p] =
                           [c1 EXCEPT !.pc = "ri_stop", !.chain = chain]]
  /\ UNCHANGED <<now, svc, pgdata, disk, tree, side, nwrites, boots>>

\* --- FULL branch -------------------------------------------------------
\* A stop step that empties the data directory before it gives up.
RestoreFullStop_WipeOnAbort(p) ==
  /\ loc[p].pc = "rf_stop"
  /\ \E stopOk \in BOOLEAN :
       IF stopOk /\ svc = "running"
       THEN /\ svc' = "stopped"
            /\ loc' = [loc EXCEPT ![p].pc = "rf_snapshot", ![p].didStop = TRUE]
            /\ UNCHANGED pgdata
       ELSE /\ Ret(p, loc[p], "ServiceControlError")
            /\ pgdata' = EmptyData
            /\ UNCHANGED svc
  /\ UNCHANGED <<now, disk, tree, side, nreq, nwrites>>
  /\ boots' = IF svc = "running" /\ svc' = "stopped" THEN boots + 1 ELSE boots

\* net stop, then sc query must report STOPPED.
RestoreFullStop(p) ==
  /\ loc[p].pc = "rf_stop"
  /\ \E stopOk \in BOOLEAN :
       IF stopOk /\ svc = "running"
       THEN /\ svc' = "stopped"
            /\ loc' = [loc EXCEPT ![p].pc = "rf_snapshot", ![p].didStop = TRUE]
       ELSE /\ Ret(p, loc[p], "ServiceControlError")
            /\ UNCHANGED svc
  /\ UNCHANGED <<now, pgdata, disk, tree, side, nreq, nwrites>>
  /\ boots' = IF svc = "running" /\ svc' = "stopped" THEN boots + 1 ELSE boots

\* copytree of the data directory to the side copy, rmtree, makedirs. A
\* failing copytree leaves through the outermost handler.
RestoreFullSnapshot(p) ==
  /\ loc[p].pc = "rf_snapshot"
  /\ LET name == SideName("pgdata_backup", now)
         c == [loc[p] EXCEPT !.original_data_backup = name]
     IN  \E copyOk \in BOOLEAN :
           IF name \in DOMAIN side
           THEN /\ Ret(p, c, "RestoreFailed")
                /\ UNCHANGED <<side, pgdata>>
           ELSE /\ side' = side @@ (name :> CopyOf(pgdata, copyOk))
                /\ IF copyOk
                   THEN /\ pgdata' = EmptyData
                        /\ loc' = [loc EXCEPT ![p] =
                                     [c EXCEPT !.pc = "rf_apply", !.didWipe = TRUE]]
                   ELSE /\ Ret(p, c, "RestoreFailed")
                        /\ UNCHANGED pgdata
  /\ UNCHANGED <<now, svc, disk, tree, nreq, nwrites, boots>>

\* The data directory is emptied again and rebuilt from the target's
\* artifacts; every failure is answered by the inner handler with a 500.
RestoreFullApply(p) ==
  /\ loc[p].pc = "rf_apply"
  /\ LET c == loc[p]
         id == c.target
     IN  \E toolOk \in BOOLEAN :
           IF ~HasBase(disk, id)
           THEN /\ pgdata' = EmptyData
                /\ Ret(p, [c EXCEPT !.didWipe = TRUE], "RestoreFailed")
           ELSE /\ pgdata' = ExtractBase(disk, id)
                /\ IF toolOk
                   THEN /\ loc' = [loc EXCEPT ![p].pc = "rf_start"]
                   ELSE Ret(p, c, "RestoreFailed")
  /\ UNCHANGED <<now, svc, disk, tree, side, nreq, nwrites, boots>>

\* net start, its result ignored.
RestoreFullStart(p) ==
  /\ loc[p].pc = "rf_start"
  /\ \E startOk \in BOOLEAN :
       svc' = IF startOk /\ Startable(pgdata) THEN "running" ELSE svc
  /\ loc' = [loc EXCEPT ![p].pc = "rf_verify"]
  /\ UNCHANGED <<now, pgdata, disk, tree, side, nreq, nwrites, boots>>

\* tar.extractall of a FULL backup's content archive into the working
\* directory, after the content tree was removed.
ExtractAll(t, archive) ==
  LET kept == DOMAIN t \ RepoFiles(t)
  IN  [f \in kept \cup DOMAIN archive |->
         IF f \in DOMAIN archive THEN archive[f] ELSE t[f]]

\* "if connection_success": the content tree is replaced by the target's
\* archive; a failure is answered by the handler of the probe.
FullFiles(p, c) ==
  \E extractOk \in BOOLEAN :
    IF ~HasFiles(disk, c.target)
    THEN /\ Ret(p, c, "Restored")
         /\ UNCHANGED tree
    ELSE IF extractOk
    THEN /\ tree' = ExtractAll(tree, disk[c.target].files[1])
         /\ Ret(p, c, "Restored")
    ELSE /\ tree' = ExtractAll(tree, <<>>)
         /\ Ret(p, c, "ConnectionFailed")

\* The connectivity probe, the audit trail and the content tree, with the
\* retry loops run to their end in one step.
RestoreFullVerify(p) ==
  /\ loc[p].pc = "rf_verify"
  /\ \E connection_success \in BOOLEAN :
       IF ~(connection_success /\ svc = "running")
       THEN /\ Ret(p, loc[p], "ConnectionFailed")
            /\ UNCHANGED tree
       ELSE FullFiles(p, loc[p])
  /\ UNCHANGED <<now, svc, pgdata, disk, side, nreq, nwrites, boots>>

max_retries == 5
audit_max_retries == 3

\* A probe that is tried again without being counted.
ProbeFull_Uncounted(p) ==
  /\ loc[p].pc = "rf_verify"
  /\ \E ok \in BOOLEAN :
       IF ok /\ svc = "running"
       THEN loc' = [loc EXCEPT ![p].pc = "rf_audit"]
       ELSE loc' = [loc EXCEPT ![p].pc = "rf_verify"]
  /\ UNCHANGED <<now, svc, pgdata, disk, tree, side, nreq, nwrites, boots>>

\* One round of "for attempt in range(max_retries)": connect and SELECT 1;
\* a failure of the last round raises into the handler of the probe.
ProbeFull(p) ==
  /\ loc[p].pc = "rf_verify"
  /\ \E ok \in BOOLEAN :
       IF ok /\ svc = "running"
       THEN loc' = [loc EXCEPT ![p].pc = "rf_audit"]
       ELSE IF loc[p].attempt < max_retries - 1
       THEN loc' = [loc EXCEPT ![p].attempt = @ + 1]
       ELSE Ret(p, loc[p], "ConnectionFailed")
  /\ UNCHANGED <<now, svc, pgdata, disk, tree, side, nreq, nwrites, boots>>

\* One round of "for audit_attempt in range(audit_max_retries)"; when all
\* rounds fail the call goes on with a warning.
AuditFull(p) ==
  /\ loc[p].pc = "rf_audit"
  /\ \E auditOk \in BOOLEAN :
       IF (auditOk /\ svc = "running")
          \/ loc[p].audit_attempt = audit_max_retries - 1
       THEN loc' = [loc EXCEPT ![p].pc = "rf_files"]
       ELSE loc' = [loc EXCEPT ![p].audit_attempt = @ + 1]
  /\ UNCHANGED <<now, svc, pgdata, disk, tree, side, nreq, nwrites, boots>>

FilesFull(p) ==
  /\ loc[p].pc = "rf_files"
  /\ FullFiles(p, loc[p])
  /\ UNCHANGED <<now, svc, pgdata, disk, side, nreq, nwrites, boots>>

\* --- INCREMENTAL branch ------------------------------------------------
\* The except handler of the INCREMENTAL branch: put the side copy back
\* when there is one, start the service, answer 500.
Rollback(p, c, res) ==
  /\ IF c.original_data_backup # NoName
        /\ c.original_data_backup \in DOMAIN side
     THEN /\ pgdata' = side[c.original_data_backup]
          /\ \E startOk \in BOOLEAN :
               svc' = IF startOk /\ svc = "stopped"
                         /\ Startable(side[c.original_data_backup])
                      THEN "running" ELSE svc
          /\ Ret(p, [c EXCEPT !.rolledBack = TRUE], res)
     ELSE /\ UNCHANGED <<pgdata, svc>>
          /\ Ret(p, c, res)

\* The base files must exist; net stop with check=True.
RestoreIncrStop(p) ==
  /\ loc[p].pc = "ri_stop"
  /\ LET c == loc[p]
     IN  \E stopOk \in BOOLEAN :
           IF ~HasBase(disk, c.chain[1].backup_id)
           THEN /\ Ret(p, c, "RestoreFailed")
                /\ UNCHANGED svc
           ELSE IF stopOk /\ svc = "running"
           THEN /\ svc' = "stopped"
                /\ loc' = [loc EXCEPT ![p].pc = "ri_snapshot",
                                      ![p].didStop = TRUE]
           ELSE /\ Ret(p, c, "ServiceControlError")
                /\ UNCHANGED svc
  /\ UNCHANGED <<now, pgdata, disk, tree, side, nreq, nwrites>>
  /\ boots' = IF svc = "running" /\ svc' = "stopped" THEN boots + 1 ELSE boots

\* copytree to the side copy, rmtree, makedirs; a failing copytree is
\* answered by the handler, with original_data_backup already assigned.
RestoreIncrSnapshot(p) ==
  /\ loc[p].pc = "ri_snapshot"
  /\ LET name == SideName("pgdata_backup", now)
         c == [loc[p] EXCEPT !.original_data_backup = name]
     IN  \E copyOk \in BOOLEAN :
           IF name \notin DOMAIN side /\ copyOk
           THEN /\ side' = side @@ (name :> pgdata)
                /\ pgdata' = EmptyData
                /\ loc' = [loc EXCEPT ![p] =
                             [c EXCEPT !.pc = "ri_apply", !.didWipe = TRUE]]
                /\ UNCHANGED svc
           ELSE /\ side' = IF name \in DOMAIN side THEN side
                           ELSE side @@ (name :> CopyOf(pgdata, FALSE))
                /\ LET s2 == side'
                   IN  /\ pgdata' = s2[name]
                       /\ \E startOk \in BOOLEAN :
                            svc' = IF startOk /\ svc = "stopped"
                                      /\ Startable(s2[name])
                                   THEN "running" ELSE svc
                       /\ Ret(p, [c EXCEPT !.rolledBack = TRUE], "RestoreFailed")
  /\ UNCHANGED <<now, disk, tree, nreq, nwrites, boots>>

\* The base image and WAL of the chain's first record, then the WAL of every
\* INCREMENTAL of the chain, recovery.signal and the configuration.
RestoreIncrApply(p) ==
  /\ loc[p].pc = "ri_apply"
  /\ LET c == loc[p]
         base == c.chain[1].backup_id
     IN  \E toolOk \in BOOLEAN :
           IF toolOk /\ HasBase(disk, base)
           THEN /\ pgdata' = [ExtractWals(ExtractBase(disk, base), disk,
                                          c.chain, 1)
                                EXCEPT !.signal = TRUE]
                /\ loc' = [loc EXCEPT ![p].pc = "ri_start"]
                /\ UNCHANGED svc
           ELSE Rollback(p, c, "RestoreFailed")
  /\ UNCHANGED <<now, disk, tree, side, nreq, nwrites, boots>>

\* net start with check=True; the engine finishes recovery on a new
\* timeline.
RestoreIncrStart(p) ==
  /\ loc[p].pc = "ri_start"
  /\ LET c == loc[p]
     IN  \E startOk \in BOOLEAN :
           IF startOk /\ svc = "stopped" /\ Startable(pgdata)
              /\ pgdata.timeline < MaxTimeline
           THEN /\ svc' = "running"
                /\ pgdata' = [pgdata EXCEPT !.timeline = @ + 1,
                                            !.signal = FALSE]
                /\ loc' = [loc EXCEPT ![p].pc = "ri_verify"]
           ELSE Rollback(p, c, "RestoreFailed")
  /\ UNCHANGED <<now, disk, tree, side, nreq, nwrites, boots>>

\* An extraction that leaves in the tree the members of the archive alone.
ExtractMembers_Mirror(t, archive, clock) ==
  [f \in {<<repository_dir>> \o m : m \in DOMAIN archive} |->
     [content |->
        archive[CHOOSE m \in DOMAIN archive : <<repository_dir>> \o m = f].content,
      mtime |-> clock]]

\* Each member of the changed-file archive written to
\* os.path.join(repository_dir, member.name).
ExtractMembers(t, archive, clock) ==
  LET target_path(m) == <<repository_dir>> \o m
      written == {target_path(m) : m \in DOMAIN archive}
  IN  [f \in DOMAIN t \cup written |->
         IF f \in written
         THEN [content |->
                 archive[CHOOSE m \in DOMAIN archive : target_path(m) = f].content,
               mtime |-> clock]
         ELSE t[f]]

\* "if restore_successful": the target's changed files are written over
\* the content tree; a failure raises into the rollback handler.
IncrFiles(p, c) ==
  \E extractOk \in BOOLEAN :
    IF ~HasFiles(disk, c.target)
    THEN /\ Ret(p, [c EXCEPT !.restore_successful = TRUE], "Restored")
         /\ UNCHANGED <<tree, pgdata, svc>>
    ELSE IF extractOk
    THEN /\ tree' = ExtractMembers(tree, disk[c.target].files[1], now)
         /\ Ret(p, [c EXCEPT !.restore_successful = TRUE], "Restored")
         /\ UNCHANGED <<pgdata, svc>>
    ELSE /\ Rollback(p, [c EXCEPT !.restore_successful = TRUE],
                     "RestoreFailed")
         /\ UNCHANGED tree

\* The connectivity probe, the audit trail and the target's changed files,
\* with the retry loops run to their end in one step.
RestoreIncrVerify(p) ==
  /\ loc[p].pc = "ri_verify"
  /\ \E connected \in BOOLEAN, auditOk \in BOOLEAN :
       IF ~(connected /\ svc = "running")
       THEN /\ Rollback(p, loc[p], "RestoreFailed")
            /\ UNCHANGED tree
       ELSE IF ~auditOk
       THEN /\ Ret(p, loc[p], "VerificationFailed")
            /\ UNCHANGED <<tree, pgdata, svc>>
       ELSE IncrFiles(p, loc[p])
  /\ UNCHANGED <<now, disk, side, nreq, nwrites, boots>>

\* One round of the probe loop of the INCREMENTAL branch; a failure of the
\* last round is raised again, into the rollback handler.
ProbeIncr(p) ==
  /\ loc[p].pc = "ri_verify"
  /\ \E ok \in BOOLEAN :
       IF ok /\ svc = "running"
       THEN /\ loc' = [loc EXCEPT ![p].pc = "ri_audit"]
            /\ UNCHANGED <<pgdata, svc>>
       ELSE IF loc[p].attempt < max_retries - 1
       THEN /\ loc' = [loc EXCEPT ![p].attempt = @ + 1]
            /\ UNCHANGED <<pgdata, svc>>
       ELSE Rollback(p, loc[p], "RestoreFailed")
  /\ UNCHANGED <<now, disk, tree, side, nreq, nwrites, boots>>

\* One round of the audit loop; restore_successful is set by the round
\* that succeeds, and without it the call answers that the verification
\* failed.
AuditIncr(p) ==
  /\ loc[p].pc = "ri_audit"
  /\ \E auditOk \in BOOLEAN :
       IF auditOk /\ svc = "running"
       THEN loc' = [loc EXCEPT ![p].pc = "ri_files"]
       ELSE IF loc[p].audit_attempt < audit_max_retries - 1
       THEN loc' = [loc EXCEPT ![p].audit_attempt = @ + 1]
       ELSE Ret(p, loc[p], "VerificationFailed")
  /\ UNCHANGED <<now, svc, pgdata, disk, tree, side, nreq, nwrites, boots>>

FilesIncr(p) ==
  /\ loc[p].pc = "ri_files"
  /\ IncrFiles(p, loc[p])
  /\ UNCHANGED <<now, disk, side, nreq, nwrites, boots>>

\* ------------------------------------------------------------------------
\* Environment
\* ------------------------------------------------------------------------
Tick ==
  /\ now < MaxNow
  /\ now' = now + 1
  /\ UNCHANGED <<svc, pgdata, disk, tree, side, loc, nreq, nwrites, boots>>

\* A file of the content tree is created or modified.
RepoWrite(f) ==
  /\ tree' = [p \in DOMAIN tree \cup {<<repository_dir, f>>} |->
                IF p = <<repository_dir, f>>
                THEN [content |-> now + 1, mtime |-> now]
                ELSE tree[p]]
  /\ nwrites < MaxWrites
  /\ nwrites' = nwrites + 1
  /\ UNCHANGED <<now, svc, pgdata, disk, side, loc, nreq, boots>>

\* A transaction of the application is committed: the WAL position moves on.
DbWrite ==
  /\ svc = "running"
  /\ nwrites < MaxWrites
  /\ nwrites' = nwrites + 1
  /\ pgdata' = [pgdata EXCEPT !.lsn = @ + 1]
  /\ UNCHANGED <<now, svc, disk, tree, side, loc, nreq, boots>>

Next ==
  \/ \E p \in Procs, bt \in BackupType : CreateBegin(p, bt)
  \/ \E p \in Procs : CreateLookup(p)
  \/ \E p \in Procs : CreateArtifacts(p)
  \/ \E p \in Procs : CreateRecord(p)
  \/ \E p \in Procs, id \in AllIds : RestoreBegin(p, id)
  \/ \E p \in Procs : RestoreFullStop(p)
  \/ \E p \in Procs : RestoreFullSnapshot(p)
  \/ \E p \in Procs : RestoreFullApply(p)
  \/ \E p \in Procs : RestoreFullStart(p)
  \/ \E p \in Procs : RestoreFullVerify(p)
  \/ \E p \in Procs : RestoreIncrStop(p)
  \/ \E p \in Procs : RestoreIncrSnapshot(p)
  \/ \E p \in Procs : RestoreIncrApply(p)
  \/ \E p \in Procs : RestoreIncrStart(p)
  \/ \E p \in Procs : RestoreIncrVerify(p)
  \/ Tick
  \/ \E f \in FileNames : RepoWrite(f)
  \/ DbWrite

Spec == Init /\ [][Next]_vars

\* The steps of a restore call, with the retry loops taken round by round.
RestoreStep(p) ==
  \/ RestoreFullStop(p) \/ RestoreFullSnapshot(p) \/ RestoreFullApply(p)
  \/ RestoreFullStart(p) \/ ProbeFull(p) \/ AuditFull(p) \/ FilesFull(p)
  \/ RestoreIncrStop(p) \/ RestoreIncrSnapshot(p) \/ RestoreIncrApply(p)
  \/ RestoreIncrStart(p) \/ ProbeIncr(p) \/ AuditIncr(p) \/ FilesIncr(p)

\* A query that returns the oldest record first.
OrderByDateAsc(S) ==
  {s \in [1..Cardinality(S) -> S] :
     /\ \A i, j \in DOMAIN s : i # j => s[i] # s[j]
     /\ \A i, j \in DOMAIN s :
          i < j => s[i].backup_date <= s[j].backup_date}

\* Backup.query.order_by(Backup.backup_date.desc()).all(): every row once,
\* later dates first; rows of equal date come in any order.
OrderByDateDesc(S) ==
  {s \in [1..Cardinality(S) -> S] :
     /\ \A i, j \in DOMAIN s : i # j => s[i] # s[j]
     /\ \A i, j \in DOMAIN s :
          i < j => s[i].backup_date >= s[j].backup_date}

\* No call is in progress.
Quiet == \A q \in Procs : loc[q].pc \in {"idle", "done"}

\* A request that arrives while no other call is in progress.
CreateAlone(p, bt) == Quiet /\ CreateBegin(p, bt)
RestoreAlone(p, id) == Quiet /\ RestoreBegin(p, id)

\* GET /list: the records newest first, or the 500 of the handler when the
\* query fails.
list_backups(p) ==
  /\ Quiet
  /\ Free(p)
  /\ LET c == [Idle EXCEPT !.op = "list"]
     IN  IF svc # "running"
         THEN Ret(p, c, "ListFailed")
         ELSE \E backups \in OrderByDateDesc(Catalog) :
                Ret(p, [c EXCEPT !.backups = backups], "Listed")
  /\ UNCHANGED <<now, svc, pgdata, disk, tree, side, nreq, nwrites, boots>>

\* The requests served one at a time, the retry loops round by round.
RetryNext ==
  \/ \E p \in Procs, bt \in BackupType : CreateAlone(p, bt)
  \/ \E p \in Procs : CreateLookup(p)
  \/ \E p \in Procs : CreateArtifacts(p)
  \/ \E p \in Procs : CreateRecord(p)
  \/ \E p \in Procs, id \in AllIds : RestoreAlone(p, id)
  \/ \E p \in Procs : RestoreFullStop(p)
  \/ \E p \in Procs : RestoreFullSnapshot(p)
  \/ \E p \in Procs : RestoreFullApply(p)
  \/ \E p \in Procs : RestoreFullStart(p)
  \/ \E p \in Procs : ProbeFull(p)
  \/ \E p \in Procs : AuditFull(p)
  \/ \E p \in Procs : FilesFull(p)
  \/ \E p \in Procs : RestoreIncrStop(p)
  \/ \E p \in Procs : RestoreIncrSnapshot(p)
  \/ \E p \in Procs : RestoreIncrApply(p)
  \/ \E p \in Procs : RestoreIncrStart(p)
  \/ \E p \in Procs : ProbeIncr(p)
  \/ \E p \in Procs : AuditIncr(p)
  \/ \E p \in Procs : FilesIncr(p)
  \/ \E p \in Procs : list_backups(p)
  \/ Tick
  \/ \E f \in FileNames : RepoWrite(f)
  \/ DbWrite

\* A handler that has started runs on: its thread is not starved.
RetrySpec ==
  Init /\ [][RetryNext]_vars /\ \A p \in Procs : WF_vars(RestoreStep(p))

\* ------------------------------------------------------------------------
\* Properties
\* ------------------------------------------------------------------------
RestorePcs ==
  {"rf_stop", "rf_snapshot", "rf_apply", "rf_start", "rf_verify",
   "rf_audit", "rf_files",
   "ri_stop", "ri_snapshot", "ri_apply", "ri_start", "ri_verify",
   "ri_audit", "ri_files"}
CreatePcs == {"c_lookup", "c_artifacts", "c_record"}

InRestore(p) == loc[p].pc \in RestorePcs
InCreate(p) == loc[p].pc \in CreatePcs

\* C1: of two concurrent restore calls at most one is past the lock step
\* (the target lookup) and on its way to the service stop and the data wipe.
C1_OneRestoreProceeds ==
  \A p, q \in Procs : p # q => ~(InRestore(p) /\ InRestore(q))

\* C2: the body of a create_backup call never runs while another
\* create_backup or a restore_backup call runs its body.
C2_CreateExclusive ==
  \A p, q \in Procs :
    (p # q /\ InCreate(p)) => ~(InCreate(q) \/ InRestore(q))

\* The artifacts a record of that type consists of are on disk.
ArtifactsPresent(d, r) ==
  /\ r.backup_id \in DOMAIN d
  /\ r.backup_type = FULL => (d[r.backup_id].db # <<>>
                                /\ d[r.backup_id].files # <<>>)
  /\ r.backup_type = INCREMENTAL => d[r.backup_id].wal # <<>>

\* C3: every record visible in the catalog has its artifact directory and
\* its artifacts on disk.
C3_RecordsHaveArtifacts ==
  svc = "running" => \A r \in Catalog : ArtifactsPresent(disk, r)

Done(p, op) == loc[p].pc = "done" /\ loc[p].op = op

\* The step in which worker p takes a request.
Begins(p) == Free(p) /\ nreq' # nreq

\* The step in which the call of p returns.
Returns(p, op) == Done(p, op)' /\ (loc[p].pc # "done" \/ Begins(p))

\* The call of p as it stands before its step: its locals, or, in the step
\* that takes the request, the state the call starts from.
Before(p, start) ==
  IF loc[p].pc \in {"idle", "done"} THEN [Idle EXCEPT !.pre = start] ELSE loc[p]

\* The chain a restore call works on: the walked chain of an INCREMENTAL
\* target, the target alone for a FULL target.
ChainOf(c) ==
  IF c.target_backup.backup_type = FULL THEN <<c.target_backup>> ELSE c.chain

\* A restore that fails after the data wipe returns with the data
\* directory and the content tree as they were before the call, the service
\* running and the rollback reported.
RolledBack(p) ==
  (loc'[p].didWipe /\ loc'[p].result # "Restored")
    => /\ pgdata' = Before(p, PreRestore).pre.pgdata
       /\ tree' = Before(p, PreRestore).pre.tree
       /\ svc' = "running"
       /\ loc'[p].rolledBack

\* C4: every restore call that returns after a failure past the data wipe
\* returns rolled back: data directory and content tree as before the
\* call, service running, rollback reported.
C4_FailedRestoreRolledBack ==
  [][\A p \in Procs : Returns(p, "restore") => RolledBack(p)]_vars

\* The WAL directory that the chain, applied in order, leaves behind.
ExpectedWal(d, ch) ==
  << <<"pg_wal", ch[1].backup_id>> >> \o
  [i \in 1..(Len(ch) - 1) |->
     <<IF HasWal(d, ch[i + 1].backup_id)
       THEN d[ch[i + 1].backup_id].wal[1].wal_file ELSE <<0, 0>>,
       ch[i + 1].backup_id>>]

\* After a successful restore the data directory holds the base image of
\* the chain's first record and the WAL artifacts of the chain, in chain
\* order, and nothing else.
LineageIsChain(p) ==
  loc'[p].result = "Restored"
    => /\ pgdata'.base = ChainOf(loc[p])[1].backup_id
       /\ pgdata'.wal = ExpectedWal(disk', ChainOf(loc[p]))

\* C5: every restore call that returns success leaves the data directory
\* with exactly the database artifacts of its chain, in chain order.
C5_LineageIsChain ==
  [][\A p \in Procs : Returns(p, "restore") => LineageIsChain(p)]_vars

ContentOf(t) == [f \in RepoFiles(t) |-> t[f].content]

ArchiveOf(d, id) == IF HasFiles(d, id) THEN d[id].files[1] ELSE <<>>

\* The content archives of ch[1..n] laid over each other by relative path.
RECURSIVE Overlay(_, _, _)
Overlay(d, ch, n) ==
  IF n = 0
  THEN <<>>
  ELSE LET below == Overlay(d, ch, n - 1)
           top == ArchiveOf(d, ch[n].backup_id)
       IN  [f \in DOMAIN below \cup DOMAIN top |->
              IF f \in DOMAIN top THEN top[f].content ELSE below[f]]

\* After a successful restore the content tree is the first record's
\* full archive with the changed-file archives of the rest of the chain laid
\* over it in chain order (stated for a chain whose artifacts are on disk).
ContentIsChain(p) ==
  (/\ loc'[p].result = "Restored"
   /\ \A i \in 1..Len(ChainOf(loc[p])) :
        ArtifactsPresent(disk', ChainOf(loc[p])[i]))
    => ContentOf(tree') = Overlay(disk', ChainOf(loc[p]), Len(ChainOf(loc[p])))

\* C6: every restore call that returns success leaves the content tree
\* equal to the overlay of the content archives of its chain.
C6_ContentIsChain ==
  [][\A p \in Procs : Returns(p, "restore") => ContentIsChain(p)]_vars

\* C7: the parent of every INCREMENTAL record is a record of the catalog
\* with the same timeline_id.
C7_ParentInSameTimeline ==
  svc = "running" =>
    \A r \in Catalog :
      r.backup_type = INCREMENTAL =>
        \E q \in Catalog : /\ q.backup_id = r.parent_backup_id
                           /\ q.timeline_id = r.timeline_id

\* A chain from a FULL root to x in which every record is the parent of the
\* next.
WellFormedChain(ch, x) ==
  /\ ch # <<>>
  /\ ch[1].backup_type = FULL
  /\ ch[Len(ch)] = x
  /\ \A i \in 1..(Len(ch) - 1) :
       ch[i + 1].parent_backup_id = ch[i].backup_id

\* The records reachable from the records of R over parent_backup_id.
RECURSIVE Ancestry(_, _)
Ancestry(S, R) ==
  LET more == R \cup {q \in S : \E r \in R : r.parent_backup_id = q.backup_id}
  IN  IF more = R THEN R ELSE Ancestry(S, more)

Dangling(S, x) ==
  \E r \in Ancestry(S, {x}) :
    /\ r.parent_backup_id # NoId
    /\ \A q \in S : q.backup_id # r.parent_backup_id

StartsRestore(p) == Begins(p) /\ loc'[p].op = "restore"

LeavesNothing(p) ==
  loc'[p].result # "Created"
    => /\ Catalog' \subseteq Catalog
       /\ loc'[p].backup_id # NoId => loc'[p].backup_id \notin DOMAIN disk'
       /\ \A r \in Before(p, PreCreate).pre.tables :
            /\ r \in Catalog'
            /\ r.backup_id \in DOMAIN Before(p, PreCreate).pre.disk =>
                 /\ r.backup_id \in DOMAIN disk'
                 /\ disk'[r.backup_id] =
                      Before(p, PreCreate).pre.disk[r.backup_id]

\* C9: every create_backup call that returns a failure has left no record
\* and no directory of its own and has not touched earlier backups.
C9_FailedCreateLeavesNothing ==
  [][\A p \in Procs : Returns(p, "create") => LeavesNothing(p)]_vars

UniqueIds(S) == \A r, q \in S : r.backup_id = q.backup_id => r = q

\* C10: the catalog never holds two records with one backup_id; a create
\* whose insert reaches the table with the id of an existing record is
\* answered DuplicateIdError and the catalog keeps the existing record,
\* unchanged.
C10_DuplicateRejected ==
  [][/\ UniqueIds(Catalog')
     /\ \A p \in Procs :
          (/\ loc[p].pc = "c_record" /\ loc'[p].pc = "done"
           /\ svc = "running" /\ ~SessionLost(loc[p])
           /\ \E r \in Catalog : r.backup_id = loc[p].backup_id)
            => /\ loc'[p].result = "DuplicateIdError"
               /\ Catalog' = Catalog]_vars

C10_Witness ==
  \E p \in Procs :
    /\ Done(p, "create")
    /\ loc[p].result = "DuplicateIdError"
    /\ \E r \in Catalog : r.backup_id = loc[p].backup_id

\* The WAL position a backup's database artifact was taken at.
CapturedLsn(d, r) ==
  IF r.backup_type = FULL THEN d[r.backup_id].db[1].lsn
  ELSE d[r.backup_id].wal[1].img.lsn

\* Nothing has changed since the backup r: the WAL position is the one r
\* captured and no file of the content tree is newer than r.
NothingSince(r) ==
  /\ r # NoRec
  /\ ArtifactsPresent(disk, r)
  /\ pgdata.lsn = CapturedLsn(disk, r)
  /\ \A f \in RepoFiles(tree) : tree[f].mtime <= r.backup_date

\* C11: an INCREMENTAL create that reaches its change detection with nothing
\* changed since its parent is answered NoChangesError and leaves neither an
\* artifact directory nor a record.
C11_NoChangesRejected ==
  [][\A p \in Procs :
       (/\ loc[p].pc = "c_artifacts" /\ loc'[p].pc # "c_artifacts"
        /\ loc[p].backup_type = INCREMENTAL
        /\ svc = "running"
        /\ First(Catalog).backup_id = loc[p].parent_backup_id
        /\ NothingSince(Lookup(Catalog, loc[p].parent_backup_id)))
         => /\ loc'[p].pc = "done"
            /\ loc'[p].result \in {"NoChangesError", "CreateFailed"}
            /\ loc[p].backup_id \notin DOMAIN disk'
            /\ Catalog' = Catalog]_vars

StopPcs == {"rf_stop", "ri_stop"}

\* C13: the stop step of a restore either leaves the service stopped and
\* goes on to the snapshot, or ends the call before the wipe; when it ends
\* the call with ServiceControlError the data directory (with the catalog in
\* it), the content tree, the artifacts and the side copies are as they
\* were and nothing was wiped or rolled back.
C13_StopFailureAborts ==
  [][\A p \in Procs :
       (loc[p].pc \in StopPcs /\ loc'[p] # loc[p])
         => \/ /\ svc' = "stopped"
               /\ loc'[p].pc \in {"rf_snapshot", "ri_snapshot"}
            \/ /\ loc'[p].pc = "done"
               /\ loc'[p].result \in {"ServiceControlError", "RestoreFailed"}
               /\ loc'[p].result = "RestoreFailed" =>
                    ~HasBase(disk, loc[p].chain[1].backup_id)
               /\ ~loc'[p].didWipe /\ ~loc'[p].rolledBack
               /\ UNCHANGED <<pgdata, tree, disk, side, svc>>]_vars

C13_Witness ==
  \E p \in Procs :
    /\ Done(p, "restore")
    /\ loc[p].result = "ServiceControlError"
    /\ svc = "running"
    /\ ~loc[p].didStop /\ ~loc[p].didWipe /\ ~loc[p].rolledBack
    /\ \A q \in Procs \ {p} : loc[q].pc = "idle"

\* The rollback of the call of p has brought the original data back and the
\* service up.
Recovered(p) ==
  svc' = "running" /\ pgdata' = Before(p, PreRestore).pre.pgdata

\* C14: the response of a failed restore that went into its rollback tells
\* the two outcomes apart: unless it is the fatal UnrecoverableRestoreError,
\* the original data directory is back and the service is running.
Distinguishable(p) ==
  (loc'[p].rolledBack /\ loc'[p].result # "UnrecoverableRestoreError")
    => Recovered(p)

\* C14: every restore call that returns after a rollback returns with a
\* response that tells a recovered rollback from a failed one.
C14_RollbackOutcomeTold ==
  [][\A p \in Procs : Returns(p, "restore") => Distinguishable(p)]_vars

\* Every record the catalog held when the call of p started is in it now.
RecordsKept(p) ==
  svc' = "running" =>
    Before(p, PreRestore).pre.pgdata.tables \subseteq Catalog'

\* C15: every restore call that returns, with success or after a rollback,
\* leaves in the catalog, unchanged, every record that was in it when the
\* call started.
C15_RecordsWriteOnce ==
  [][\A p \in Procs : Returns(p, "restore") => RecordsKept(p)]_vars

\* The records above r: its parent, the parent's parent, and so on.
Ancestors(S, r) ==
  Ancestry(S, {q \in S : q.backup_id = r.parent_backup_id}) \ 
    (IF \E q \in S : q.backup_id = r.parent_backup_id THEN {} ELSE {r})

\* The parent pointers from r end at exactly one FULL record without
\* parent, without ever coming back to a record already passed.
TerminatesAtFull(S, r) ==
  LET path == Ancestry(S, {r})
      roots == {q \in path : q.parent_backup_id = NoId}
  IN  /\ ~Dangling(S, r)
      /\ Cardinality(roots) = 1
      /\ \A q \in roots : q.backup_type = FULL
      /\ \A q \in path : q \notin Ancestors(S, q)

\* C16: in the catalog a FULL record has no parent, an INCREMENTAL record
\* has one, and the parent pointers from every record end at exactly one
\* FULL record, without a cycle.
C16_ChainsTerminate ==
  svc = "running" =>
    \A r \in Catalog :
      /\ r.backup_type = FULL <=> r.parent_backup_id = NoId
      /\ TerminatesAtFull(Catalog, r)

C16_Witness ==
  /\ svc = "running"
  /\ pgdata.timeline > 1
  /\ \E r \in Catalog :
       /\ r.backup_type = INCREMENTAL
       /\ r.timeline_id = pgdata.timeline
       /\ TerminatesAtFull(Catalog, r)

\* The side copy of the data directory that the call of p made is gone.
SnapshotDeleted(p) ==
  loc[p].original_data_backup # NoName =>
    loc[p].original_data_backup \notin DOMAIN side'

\* C17: a restore call that returns success, or a failure after a rollback
\* that brought the original data back and the service up, has deleted the
\* side copy of the data directory it made.
C17_SnapshotDeleted ==
  [][\A p \in Procs :
       (/\ Returns(p, "restore")
        /\ \/ loc'[p].result = "Restored"
           \/ loc'[p].rolledBack /\ Recovered(p))
         => SnapshotDeleted(p)]_vars

\* The step of p that ends the probe loop without a connection.
ProbeExhausted(p) ==
  /\ loc[p].pc \in {"rf_verify", "ri_verify"}
  /\ loc[p].attempt = 4
  /\ loc'[p] # loc[p]
  /\ loc'[p].pc \notin {"rf_audit", "ri_audit"}

\* C18: the probe loop runs at most 5 rounds and the audit loop at most 3;
\* a probe loop that ends without a connection ends the call with an error
\* response; and every restore call that has started returns.
C18_RestoreTerminates ==
  /\ [](\A p \in Procs : loc[p].attempt < 5 /\ loc[p].audit_attempt < 3)
  /\ [][\A p \in Procs :
          ProbeExhausted(p) =>
            /\ loc'[p].pc = "done"
            /\ loc'[p].result \in {"ConnectionFailed", "RestoreFailed"}]_vars
  /\ \A p \in Procs : InRestore(p) ~> (loc[p].pc = "done")

C18_Witness ==
  \E p \in Procs :
    /\ Done(p, "restore")
    /\ loc[p].attempt = 4
    /\ svc = "stopped"
    /\ loc[p].result = "ConnectionFailed"

\* The step in which a list call of p is answered from the catalog.
Lists(p) == loc'[p] # loc[p] /\ Done(p, "list")' /\ loc'[p].result = "Listed"

DistinctDates(S) == \A r, q \in S : r.backup_date = q.backup_date => r = q

\* C19: a list call returns every record of the catalog exactly once, the
\* newest first, which for records of distinct dates is one and the same
\* answer for one and the same catalog; and neither a list call nor the
\* lookups and the chain walk of a restore call change the catalog or
\* anything else besides the call's own locals.
C19_ListIsPureRead ==
  [][\A p \in Procs :
       /\ Lists(p) =>
            /\ {loc'[p].backups[i] : i \in DOMAIN loc'[p].backups} = Catalog
            /\ Len(loc'[p].backups) = Cardinality(Catalog)
            /\ \A i \in 1..(Len(loc'[p].backups) - 1) :
                 loc'[p].backups[i].backup_date
                   >= loc'[p].backups[i + 1].backup_date
            /\ DistinctDates(Catalog) =>
                 \A s \in OrderByDateDesc(Catalog) : s = loc'[p].backups
       /\ (Done(p, "list")' /\ loc'[p] # loc[p]) \/ StartsRestore(p) =>
            UNCHANGED <<pgdata, disk, tree, side, svc>>]_vars

C19_Witness ==
  \E p \in Procs :
    /\ Done(p, "list")
    /\ Len(loc[p].backups) > 1
    /\ loc[p].backups[1].backup_date > loc[p].backups[2].backup_date
    /\ {loc[p].backups[i] : i \in DOMAIN loc[p].backups} = Catalog
    /\ pgdata.timeline > 1

\* The files under the root modified after the cutoff, as paths relative
\* to the root.
ChangedRelative(t, cutoff) ==
  {RelPath(f, <<repository_dir>>) :
     f \in {g \in RepoFiles(t) : t[g].mtime > cutoff}}

\* C20: for every cutoff, get_changed_files on the content tree is the set
\* of the files modified strictly after the cutoff, each as its path
\* relative to the root.
C20_ChangedFilesRelative ==
  \A cutoff \in 0..MaxNow :
    get_changed_files(tree, cutoff) = ChangedRelative(tree, cutoff)

\* The step of p that makes the side copy of the data directory.
TakesSnapshot(p) ==
  /\ loc[p].pc \in {"rf_snapshot", "ri_snapshot"}
  /\ loc'[p] # loc[p]
  /\ side' # side

\* C21: a restore takes its snapshot before it has stopped the service, and
\* has applied the content tree before the service start, so that the step
\* that verifies the connection and returns success leaves the tree alone.
C21_StepsInOrder ==
  [][\A p \in Procs :
       /\ TakesSnapshot(p) => ~loc[p].didStop
       /\ (Returns(p, "restore") /\ loc'[p].result = "Restored")
            => tree' = tree]_vars

AuditPcs == {"rf_audit", "ri_audit"}
FilesPcs == {"rf_files", "ri_files"}

\* C22: a restore returns success only past a probe that succeeded, and
\* once the probe has succeeded the audit rounds, whatever their outcome,
\* do not end the call: it goes on to restore the content tree.
C22_AuditNeverFailsRestore ==
  [][\A p \in Procs :
       /\ (Returns(p, "restore") /\ loc'[p].result = "Restored")
            => loc[p].pc \in FilesPcs
       /\ (loc[p].pc \in AuditPcs /\ loc'[p] # loc[p])
            => loc'[p].pc \in AuditPcs \cup FilesPcs]_vars

\* The WAL range written to the backup.info of r starts where the backup q
\* ended.
StartsAtEndOf(d, r, q) ==
  d[r.backup_id].wal[1].start_wal_location = CapturedLsn(d, q)

\* C23: every record carries the WAL position captured at its creation,
\* and the WAL range of every INCREMENTAL record starts at the position its
\* parent ended at.
C23_WalRangesContiguous ==
  svc = "running" =>
    \A r \in Catalog :
      /\ r.wal_lsn # <<>>
      /\ \A q \in Catalog :
           (/\ r.backup_type = INCREMENTAL
            /\ q.backup_id = r.parent_backup_id
            /\ ArtifactsPresent(disk, r) /\ ArtifactsPresent(disk, q))
             => StartsAtEndOf(disk, r, q)

\* C24: the backup.info of every INCREMENTAL backup names one record three
\* times: the record its change detection compared with and the record
\* whose date was the cutoff of its changed files are the record it has as
\* parent.
C24_BaselineIsParent ==
  \A id \in DOMAIN disk :
    HasWal(disk, id) =>
      /\ disk[id].wal[1].baseline = disk[id].wal[1].parent_backup_id
      /\ disk[id].wal[1].cutoff = disk[id].wal[1].parent_backup_id

\* The step that ends the call of p after its service stop and before its
\* data wipe.
AbortsBeforeWipe(p) ==
  /\ loc[p].didStop /\ ~loc[p].didWipe
  /\ loc[p].pc # "done" /\ loc'[p].pc = "done"
  /\ loc'[p].result # "Restored"

\* C25: a restore that fails after its service stop and before its data
\* wipe ends with the data directory as it was and the service running
\* again.
C25_AbortBeforeWipeRestores ==
  [][\A p \in Procs :
       AbortsBeforeWipe(p) => (pgdata' = pgdata /\ svc' = "running")]_vars

\* The step in which an INCREMENTAL restore of p returns success.
IncrRestored(p) ==
  /\ Returns(p, "restore")
  /\ loc'[p].result = "Restored"
  /\ loc[p].pc \in {"ri_verify", "ri_files"}

\* C26: the step of a successful INCREMENTAL restore that applies the
\* changed-file archive removes no file from the tree, and a file whose
\* content it changes has its path relative to the root among the members
\* of the target's archive.
C26_ArchiveNeverDeletes ==
  [][\A p \in Procs :
       IncrRestored(p) =>
         \A f \in DOMAIN tree :
           /\ f \in DOMAIN tree'
           /\ tree'[f].content # tree[f].content =>
                /\ HasFiles(disk, loc[p].target)
                /\ RelPath(f, <<repository_dir>>)
                     \in DOMAIN disk[loc[p].target].files[1]]_vars

C26_Witness ==
  \E p \in Procs :
    /\ Done(p, "restore")
    /\ loc[p].result = "Restored"
    /\ loc[p].target[1] = INCREMENTAL
    /\ HasFiles(disk, loc[p].target)
    /\ \E m \in DOMAIN disk[loc[p].target].files[1] :
         <<repository_dir>> \o m \in DOMAIN tree
    /\ \A f \in FileNames : <<repository_dir, f>> \in DOMAIN tree

\* A step of the restore call of p that wipes or rewrites the data
\* directory.
RewritesData(p) ==
  /\ InRestore(p)
  /\ loc'[p] # loc[p]
  /\ pgdata' # pgdata

\* C27: a restore call wipes or rewrites the data directory only while the
\* service is stopped, on the way forward and in its rollback.
C27_DataWrittenWhileStopped ==
  [][\A p \in Procs : RewritesData(p) => svc = "stopped"]_vars

\* The snapshot step of p ends the call: the copy did not complete.
SnapshotFails(p) ==
  /\ loc[p].pc \in {"rf_snapshot", "ri_snapshot"}
  /\ loc'[p].pc = "done"

\* C28: when the copy of the safety snapshot fails, the live data directory
\* stays as it is: it is neither removed nor replaced by what the copy left.
C28_NoRollbackFromPartialCopy ==
  [][\A p \in Procs : SnapshotFails(p) => pgdata' = pgdata]_vars

\* The side copy the call of p has by the end of the step is a complete
\* copy of the data directory.
HasSnapshot(p) ==
  LET name == IF loc[p].original_data_backup # NoName
              THEN loc[p].original_data_backup
              ELSE loc'[p].original_data_backup
  IN  /\ name # NoName
      /\ name \in DOMAIN side'
      /\ side'[name].base # PartialId

\* C29: a step of a restore call that wipes or overwrites the data
\* directory is made with a complete side copy of it taken by then in the
\* same call.
C29_NoWipeWithoutSnapshot ==
  [][\A p \in Procs : RewritesData(p) => HasSnapshot(p)]_vars

\* The path a member of a changed-file archive was read from: its name is
\* relative to the directory that holds the root.
SourcePath(m) == Dirname(<<repository_dir>>) \o m

\* C30: the step of a successful INCREMENTAL restore that applies the
\* changed-file archive writes each member back to the path it was archived
\* from.
C30_FilesRoundTrip ==
  [][\A p \in Procs :
       (IncrRestored(p) /\ HasFiles(disk, loc[p].target)) =>
         \A m \in DOMAIN disk[loc[p].target].files[1] :
           /\ SourcePath(m) \in DOMAIN tree'
           /\ tree'[SourcePath(m)] =
                [content |-> disk[loc[p].target].files[1][m].content,
                 mtime |-> now]]_vars

====
